---- MODULE Spec2Model ----
(***************************************************************************)
(* Octane fuel and mileage tracker: the fuel-entry store (a Pinia store    *)
(* over a Firestore collection with a live snapshot listener), its         *)
(* validators, and the pure calculation module the store reads its         *)
(* metrics from; beside it the sync-status store fed by the connectivity   *)
(* tracker, the vehicle store with its two listeners, and the router's     *)
(* navigation guard over the auth store.                                   *)
(*                                                                         *)
(* An async store operation runs to its first await as one step (the       *)
(* JavaScript run-to-completion rule); its continuation after the await is *)
(* a second step.  Between the two the remote collection, the snapshot     *)
(* listener and other store operations may act.                            *)
(*                                                                         *)
(* Dates are instants (milliseconds, scaled to small integers): every      *)
(* caller passes new Date(x).toISOString(), which new Date() parses back   *)
(* to the same instant.  The optional station label is left out: no        *)
(* operation reads it.                                                     *)
(***************************************************************************)
EXTENDS Integers, Sequences, FiniteSets, TLC

VARIABLES
    entries,      \* entries.value: the store's local collection
    loading,      \* loading.value
    error,        \* error.value ("null" when unset)
    unsubscribe,  \* the listener handle kept by init (0 is null)
    currentUser,  \* auth.currentUser is set
    now,          \* the wall clock read by new Date() / Date.now()
    remoteDocs,   \* the Firestore collection users/{uid}/fuelEntries
    listeners,    \* the snapshot listeners Firestore holds registered
    nextListener, \* listeners registered so far
    snapshots,    \* snapshots captured for a listener, callback not yet run
    writes,       \* remote writes whose promise the store is awaiting
    nextDoc,      \* document ids handed out so far
    nextWrite,    \* remote writes issued so far
    lastCall,     \* how the most recently settled store operation ended
    deletedIds,   \* ids deleteEntry has removed from the local collection
    args,         \* the argument of the pure function under call
    result,       \* what that call returned or raised
    syncStore,    \* useSyncStore: isOnline, isPending, isSyncing, errorMessage
    connectivity, \* the connectivity tracker's module state and the browser
    authStore,    \* useAuthStore: user, loading, and its auth listeners
    navigation,   \* the navigation the router's guard is deciding
    vehicleStore, \* useVehicleStore: its refs and its two listener handles
    vehicleSubs,  \* the snapshot listeners the vehicle store has registered
    vehicleRemote \* users/{uid}/vehicle/data and users/{uid}/fuelLogs

shellVars == <<syncStore, connectivity, authStore, navigation, vehicleStore,
               vehicleSubs, vehicleRemote>>

vars == <<entries, loading, error, unsubscribe, currentUser, now, remoteDocs,
          listeners, nextListener, snapshots, writes, nextDoc, nextWrite,
          lastCall, deletedIds, args, result, shellVars>>

storeVars == <<entries, loading, error, unsubscribe, currentUser, now,
               remoteDocs, listeners, nextListener, snapshots, writes,
               nextDoc, nextWrite, lastCall, deletedIds>>

(***************************************************************************)
(* Bounds of the model.                                                    *)
(***************************************************************************)
MaxTime == 2        \* the clock runs 1..MaxTime
MaxDocs == 1        \* document ids the remote collection hands out
MaxWrites == 2      \* remote writes the store issues in one run
MaxSnapshots == 1   \* snapshots in flight at once
MaxListeners == 1   \* listeners registered in one run
MaxLen == 3         \* entries in a sequence handed to the calculator
MaxOdometer == 2    \* odometer readings 0..MaxOdometer
MaxFuel == 2        \* fuel amounts 0..MaxFuel
MaxScalar == 1      \* validator inputs and instants -1..MaxScalar
MaxCapacity == 2    \* tank capacities -1..MaxCapacity
MaxCalls == 2       \* successive calls of one pure function on one argument
MaxEvents == 3      \* browser online / offline events in one run
MaxInits == 2       \* runs of the vehicle store's init that register listeners

(***************************************************************************)
(* Values.                                                                 *)
(***************************************************************************)
DocId(n) == <<"doc", n>>

\* `temp-${Date.now()}`: one id per millisecond
TempId(t) == <<"temp", t>>

NoId == <<"none", 0>>

ErrOdometer == "Odometer must be positive"
ErrFuelAmount == "Fuel amount must be positive"
ErrFuelPrice == "Fuel price must be positive"
ErrFutureDate == "Date cannot be in the future"
ErrNotAuthenticated == "User not authenticated"
ErrNotFound == "Entry not found"
ErrNonMonotonic == "Odometer readings must be monotonically increasing"

DataFields == {"date", "odometer", "fuelAmount", "fuelPrice"}

Ids(es) == {es[i].id : i \in DOMAIN es}

(***************************************************************************)
(* Validators.                                                             *)
(***************************************************************************)
\* mutant: the date check lets a future date through
validateFuelEntry_noDate(input, t) ==
    IF input.odometer <= 0 THEN ErrOdometer
    ELSE IF input.fuelAmount <= 0 THEN ErrFuelAmount
    ELSE IF input.fuelPrice <= 0 THEN ErrFuelPrice
    ELSE "ok"

\* validateFuelEntry(input) with new Date() = t: the message thrown, or "ok"
validateFuelEntry(input, t) ==
    IF input.odometer <= 0 THEN ErrOdometer
    ELSE IF input.fuelAmount <= 0 THEN ErrFuelAmount
    ELSE IF input.fuelPrice <= 0 THEN ErrFuelPrice
    ELSE IF input.date > t THEN ErrFutureDate
    ELSE "ok"

Has(updates, f) == f \in DOMAIN updates

\* mutant: the odometer of an update is not checked
validateUpdateData_noOdometer(updates, t) ==
    IF Has(updates, "fuelAmount") /\ updates.fuelAmount <= 0 THEN ErrFuelAmount
    ELSE IF Has(updates, "fuelPrice") /\ updates.fuelPrice <= 0 THEN ErrFuelPrice
    ELSE IF Has(updates, "date") /\ updates.date > t THEN ErrFutureDate
    ELSE "ok"

\* mutant: an update is validated as a whole record would be, an absent
\* field read as 0
validateUpdateData_required(updates, t) ==
    IF ~Has(updates, "odometer") \/ updates.odometer <= 0 THEN ErrOdometer
    ELSE IF ~Has(updates, "fuelAmount") \/ updates.fuelAmount <= 0 THEN ErrFuelAmount
    ELSE IF ~Has(updates, "fuelPrice") \/ updates.fuelPrice <= 0 THEN ErrFuelPrice
    ELSE IF Has(updates, "date") /\ updates.date > t THEN ErrFutureDate
    ELSE "ok"

\* validateUpdateData(updates) with new Date() = t
validateUpdateData(updates, t) ==
    IF Has(updates, "odometer") /\ updates.odometer <= 0 THEN ErrOdometer
    ELSE IF Has(updates, "fuelAmount") /\ updates.fuelAmount <= 0 THEN ErrFuelAmount
    ELSE IF Has(updates, "fuelPrice") /\ updates.fuelPrice <= 0 THEN ErrFuelPrice
    ELSE IF Has(updates, "date") /\ updates.date > t THEN ErrFutureDate
    ELSE "ok"

(***************************************************************************)
(* Records.                                                                *)
(***************************************************************************)
\* newEntry = {...input, createdAt: now, updatedAt: now}
NewEntry(input, t) ==
    [date |-> input.date, odometer |-> input.odometer,
     fuelAmount |-> input.fuelAmount, fuelPrice |-> input.fuelPrice,
     createdAt |-> t, updatedAt |-> t]

\* {id, ...data}: an entry of the local collection
WithId(id, data) ==
    [id |-> id, date |-> data.date, odometer |-> data.odometer,
     fuelAmount |-> data.fuelAmount, fuelPrice |-> data.fuelPrice,
     createdAt |-> data.createdAt, updatedAt |-> data.updatedAt]

\* mutant: the new entry is appended at the back
Unshift_push(es, e) == Append(es, e)

\* entries.value.unshift(e)
Unshift(es, e) == <<e>> \o es

\* mutant: a merge that keeps the stored value of every field
Merge_keepStored(entry, updates, t) == [entry EXCEPT !.updatedAt = t]

\* mutant: updatedAt is left as stored
Merge_noTimestamp(entry, updates, t) ==
    [f \in DOMAIN entry |->
        IF f \in DOMAIN updates THEN updates[f] ELSE entry[f]]

\* {...entry, ...updates, updatedAt: now}
Merge(entry, updates, t) ==
    [f \in DOMAIN entry |->
        IF f = "updatedAt" THEN t
        ELSE IF f \in DOMAIN updates THEN updates[f]
        ELSE entry[f]]

\* entries.value.findIndex(e => e.id === entryId), 0 standing for -1
FindIndex(es, id) ==
    IF id \in Ids(es)
    THEN CHOOSE i \in DOMAIN es :
            es[i].id = id /\ \A j \in 1..(i - 1) : es[j].id # id
    ELSE 0

\* entries.value.filter(e => e.id !== entryId)
RemoveById(es, id) == SelectSeq(es, LAMBDA e : e.id # id)

(***************************************************************************)
(* The remote collection and its listener.                                 *)
(***************************************************************************)
\* the order of query(entriesCol, orderBy('date', 'desc'))
Before(d, e) ==
    \/ d.data.date > e.data.date
    \/ d.data.date = e.data.date /\ d.id[2] > e.id[2]

RECURSIVE QueryDocs(_)
\* snapshot.docs of the query over a collection
QueryDocs(S) ==
    IF S = {} THEN <<>>
    ELSE LET d == CHOOSE x \in S : \A y \in S \ {x} : Before(x, y)
         IN  <<d>> \o QueryDocs(S \ {d})

\* snapshot.docs.map(doc => ({id: doc.id, ...doc.data()}))
SnapshotEntries(docs) == [i \in DOMAIN docs |-> WithId(docs[i].id, docs[i].data)]

\* the data addDoc sends: createdAt and updatedAt are serverTimestamp()
ServerStamped(data, t) == [data EXCEPT !.createdAt = t, !.updatedAt = t]

\* setDoc(ref, {...updates, updatedAt: serverTimestamp()}, {merge: true})
RemoteMerge(data, updates, t) ==
    [f \in DOMAIN data |->
        IF f = "updatedAt" THEN t
        ELSE IF f \in DOMAIN updates THEN updates[f]
        ELSE data[f]]

RemoteIds == {d.id : d \in remoteDocs}

RemoteDoc(id) == CHOOSE d \in remoteDocs : d.id = id

(***************************************************************************)
(* Inputs of the store operations.                                         *)
(***************************************************************************)
Input(d, o, a, p) == [date |-> d, odometer |-> o, fuelAmount |-> a, fuelPrice |-> p]

\* two valid inputs, and one input for each rule of the validator
CreateInputs ==
    {Input(1, 1, 1, 1), Input(1, 2, 1, 1), Input(1, 0, 1, 1),
     Input(1, 1, 0, 1), Input(1, 1, 1, 0), Input(MaxTime + 1, 1, 1, 1)}

UpdateInputs ==
    {[odometer |-> 0], [odometer |-> 2], [fuelAmount |-> 0],
     [fuelAmount |-> 2], [fuelPrice |-> 0], [date |-> MaxTime + 1],
     [date |-> 1, odometer |-> 1]}

\* what another client, an import or the console may have stored
ExternalData ==
    {[date |-> 1, odometer |-> 0, fuelAmount |-> 1, fuelPrice |-> 1,
      createdAt |-> 1, updatedAt |-> 1]}

TargetIds == Ids(entries) \cup RemoteIds \cup deletedIds

NoCall == [op |-> "none", outcome |-> "none"]

\* a settled call: the operation, and "ok" or the message it threw
Settled(op, outcome) == [op |-> op, outcome |-> outcome]

(***************************************************************************)
(* Initial state: the store as defineStore builds it, nobody signed in,    *)
(* an empty remote collection.                                             *)
(***************************************************************************)
StoreInit ==
    /\ entries = <<>>
    /\ loading = FALSE
    /\ error = "null"
    /\ unsubscribe = 0
    /\ currentUser = FALSE
    /\ now = 1
    /\ remoteDocs = {}
    /\ listeners = <<>>
    /\ nextListener = 0
    /\ snapshots = <<>>
    /\ writes = {}
    /\ nextDoc = 0
    /\ nextWrite = 0
    /\ lastCall = NoCall
    /\ deletedIds = {}

\* the four refs of the sync store as defineStore builds them
SyncInit == [isOnline |-> TRUE, isPending |-> FALSE, isSyncing |-> FALSE,
             errorMessage |-> "null"]

\* the connectivity module as loaded in a browser whose navigator.onLine is b:
\* no callback, no window listeners; events and delivered record the run
ConnectivityInit(b) ==
    [isOnline |-> b, onChangeCallback |-> "null", listening |-> FALSE,
     onLine |-> b, events |-> 0, delivered |-> <<>>]

ShellInit ==
    /\ syncStore = SyncInit
    /\ connectivity = ConnectivityInit(TRUE)
    /\ authStore = [user |-> FALSE, loading |-> TRUE, listeners |-> 0]
    /\ navigation = [stage |-> "idle", to |-> "none", at |-> "none"]
    /\ vehicleStore = [vehicle |-> "null", fuelLogs |-> <<>>, loading |-> FALSE,
                       error |-> "null", unsubscribeVehicle |-> 0,
                       unsubscribeLogs |-> 0]
    /\ vehicleSubs = <<>>
    /\ vehicleRemote = [vehicle |-> "none", fuelLogs |-> <<>>]

NoArgs == [for |-> "none"]

NotCalled == [fn |-> "none"]

Init ==
    /\ StoreInit
    /\ ShellInit
    /\ args = NoArgs
    /\ result = NotCalled

(***************************************************************************)
(* The environment: authentication, the clock, other writers.              *)
(***************************************************************************)
signIn ==
    /\ ~currentUser
    /\ currentUser' = TRUE
    /\ UNCHANGED <<entries, loading, error, unsubscribe, now, remoteDocs,
                   listeners, nextListener, snapshots, writes, nextDoc,
                   nextWrite, lastCall, deletedIds, args, result, shellVars>>

tick ==
    /\ now < MaxTime
    /\ now' = now + 1
    /\ UNCHANGED <<entries, loading, error, unsubscribe, currentUser,
                   remoteDocs, listeners, nextListener, snapshots, writes,
                   nextDoc, nextWrite, lastCall, deletedIds, args, result, shellVars>>

externalWrite(data) ==
    /\ nextDoc < MaxDocs
    /\ nextDoc' = nextDoc + 1
    /\ remoteDocs' = remoteDocs \cup {[id |-> DocId(nextDoc + 1), data |-> data]}
    /\ UNCHANGED <<entries, loading, error, unsubscribe, currentUser, now,
                   listeners, nextListener, snapshots, writes, nextWrite,
                   lastCall, deletedIds, args, result, shellVars>>

(***************************************************************************)
(* init, the snapshot listener, cleanup.                                   *)
(***************************************************************************)
init ==
    IF ~currentUser
    THEN /\ error' = ErrNotAuthenticated
         /\ UNCHANGED <<entries, loading, unsubscribe, currentUser, now,
                        remoteDocs, listeners, nextListener, snapshots,
                        writes, nextDoc, nextWrite, lastCall, deletedIds,
                        args, result, shellVars>>
    ELSE /\ nextListener < MaxListeners
         /\ loading' = TRUE
         /\ nextListener' = nextListener + 1
         /\ unsubscribe' = nextListener + 1
         /\ listeners' = Append(listeners, [active |-> TRUE, fired |-> FALSE,
                                            docs |-> <<>>])
         /\ UNCHANGED <<entries, error, currentUser, now, remoteDocs,
                        snapshots, writes, nextDoc, nextWrite, lastCall,
                        deletedIds, args, result, shellVars>>

\* Firestore computes a snapshot for listener l: the first one, or one after
\* the query's result has changed
captureSnapshot(l) ==
    /\ l \in DOMAIN listeners
    /\ listeners[l].active
    /\ Len(snapshots) < MaxSnapshots
    /\ LET docs == QueryDocs(remoteDocs)
       IN  /\ ~listeners[l].fired \/ listeners[l].docs # docs
           /\ listeners' = [listeners EXCEPT ![l] =
                               [active |-> TRUE, fired |-> TRUE, docs |-> docs]]
           /\ snapshots' = Append(snapshots, [listener |-> l, docs |-> docs])
    /\ UNCHANGED <<entries, loading, error, unsubscribe, currentUser, now,
                   remoteDocs, nextListener, writes, nextDoc, nextWrite,
                   lastCall, deletedIds, args, result, shellVars>>

\* the onSnapshot callback runs on the oldest snapshot in flight
onSnapshotNext ==
    /\ snapshots # <<>>
    /\ entries' = SnapshotEntries(Head(snapshots).docs)
    /\ loading' = FALSE
    /\ snapshots' = Tail(snapshots)
    /\ UNCHANGED <<error, unsubscribe, currentUser, now, remoteDocs,
                   listeners, nextListener, writes, nextDoc, nextWrite,
                   lastCall, deletedIds, args, result, shellVars>>

\* the onSnapshot error callback; Firestore ends the listener with it
onSnapshotError(l) ==
    /\ l \in DOMAIN listeners
    /\ listeners[l].active
    /\ error' = "listen failed"
    /\ loading' = FALSE
    /\ listeners' = [listeners EXCEPT ![l].active = FALSE]
    /\ snapshots' = SelectSeq(snapshots, LAMBDA s : s.listener # l)
    /\ UNCHANGED <<entries, unsubscribe, currentUser, now, remoteDocs,
                   nextListener, writes, nextDoc, nextWrite, lastCall,
                   deletedIds, args, result, shellVars>>

cleanup ==
    /\ IF unsubscribe # 0
       THEN /\ listeners' = [listeners EXCEPT ![unsubscribe].active = FALSE]
            /\ snapshots' = SelectSeq(snapshots,
                                      LAMBDA s : s.listener # unsubscribe)
       ELSE UNCHANGED <<listeners, snapshots>>
    /\ entries' = <<>>
    /\ UNCHANGED <<loading, error, unsubscribe, currentUser, now, remoteDocs,
                   nextListener, writes, nextDoc, nextWrite, lastCall,
                   deletedIds, args, result, shellVars>>

(***************************************************************************)
(* createEntry.                                                            *)
(***************************************************************************)
\* the call up to `await addDoc(...)`, or to the throw that ends it
createEntry(input) ==
    /\ LET v == validateFuelEntry(input, now)
       IN  IF v # "ok"
           THEN /\ lastCall' = Settled("createEntry", v)
                /\ UNCHANGED <<writes, nextWrite>>
           ELSE IF ~currentUser
           THEN /\ lastCall' = Settled("createEntry", ErrNotAuthenticated)
                /\ UNCHANGED <<writes, nextWrite>>
           ELSE /\ nextWrite < MaxWrites
                /\ nextWrite' = nextWrite + 1
                /\ writes' = writes \cup
                        {[call |-> nextWrite + 1, op |-> "addDoc", id |-> NoId,
                          data |-> NewEntry(input, now), state |-> "sent"]}
                /\ UNCHANGED lastCall
    /\ UNCHANGED <<entries, loading, error, unsubscribe, currentUser, now,
                   remoteDocs, listeners, nextListener, snapshots, nextDoc,
                   deletedIds, args, result, shellVars>>

\* the remote collection takes the document of an addDoc
addDocApplied(w) ==
    /\ w \in writes
    /\ w.op = "addDoc"
    /\ w.state = "sent"
    /\ nextDoc < MaxDocs
    /\ nextDoc' = nextDoc + 1
    /\ remoteDocs' = remoteDocs \cup
            {[id |-> DocId(nextDoc + 1), data |-> ServerStamped(w.data, now)]}
    /\ writes' = (writes \ {w}) \cup
            {[w EXCEPT !.id = DocId(nextDoc + 1), !.state = "applied"]}
    /\ UNCHANGED <<entries, loading, error, unsubscribe, currentUser, now,
                   listeners, nextListener, snapshots, nextWrite, lastCall,
                   deletedIds, args, result, shellVars>>

\* addDoc resolved: the statements after the await, in the try block
createEntryResolved(w) ==
    /\ w \in writes
    /\ w.op = "addDoc"
    /\ w.state = "applied"
    /\ entries' = Unshift(entries, WithId(w.id, w.data))
    /\ writes' = writes \ {w}
    /\ lastCall' = Settled("createEntry", "ok")
    /\ UNCHANGED <<loading, error, unsubscribe, currentUser, now, remoteDocs,
                   listeners, nextListener, snapshots, nextDoc, nextWrite,
                   deletedIds, args, result, shellVars>>

\* addDoc rejected: the catch block
createEntryRejected(w) ==
    /\ w \in writes
    /\ w.op = "addDoc"
    /\ w.state = "sent"
    /\ entries' = Unshift(entries, WithId(TempId(now), w.data))
    /\ writes' = writes \ {w}
    /\ lastCall' = Settled("createEntry", "ok")
    /\ UNCHANGED <<loading, error, unsubscribe, currentUser, now, remoteDocs,
                   listeners, nextListener, snapshots, nextDoc, nextWrite,
                   deletedIds, args, result, shellVars>>

(***************************************************************************)
(* updateEntry.                                                            *)
(***************************************************************************)
\* mutant: the entry is merged before the update is validated
updateEntry_mergeFirst(entryId, updates) ==
    /\ LET v == validateUpdateData(updates, now)
           entryIndex == FindIndex(entries, entryId)
           merged == IF entryIndex = 0 THEN entries
                     ELSE [entries EXCEPT ![entryIndex] =
                              Merge(entries[entryIndex], updates, now)]
       IN  IF v # "ok"
           THEN /\ lastCall' = Settled("updateEntry", v)
                /\ entries' = merged
                /\ UNCHANGED <<writes, nextWrite>>
           ELSE IF ~currentUser
           THEN /\ lastCall' = Settled("updateEntry", ErrNotAuthenticated)
                /\ UNCHANGED <<entries, writes, nextWrite>>
           ELSE IF entryIndex = 0
           THEN /\ lastCall' = Settled("updateEntry", ErrNotFound)
                /\ UNCHANGED <<entries, writes, nextWrite>>
           ELSE /\ nextWrite < MaxWrites
                /\ nextWrite' = nextWrite + 1
                /\ entries' = merged
                /\ writes' = writes \cup
                        {[call |-> nextWrite + 1, op |-> "setDoc",
                          id |-> entryId, data |-> updates, state |-> "sent"]}
                /\ UNCHANGED lastCall
    /\ UNCHANGED <<loading, error, unsubscribe, currentUser, now, remoteDocs,
                   listeners, nextListener, snapshots, nextDoc, deletedIds,
                   args, result, shellVars>>

\* the call up to `await setDoc(...)`, or to the throw that ends it
updateEntry(entryId, updates) ==
    /\ LET v == validateUpdateData(updates, now)
           entryIndex == FindIndex(entries, entryId)
       IN  IF v # "ok"
           THEN /\ lastCall' = Settled("updateEntry", v)
                /\ UNCHANGED <<entries, writes, nextWrite>>
           ELSE IF ~currentUser
           THEN /\ lastCall' = Settled("updateEntry", ErrNotAuthenticated)
                /\ UNCHANGED <<entries, writes, nextWrite>>
           ELSE IF entryIndex = 0
           THEN /\ lastCall' = Settled("updateEntry", ErrNotFound)
                /\ UNCHANGED <<entries, writes, nextWrite>>
           ELSE /\ nextWrite < MaxWrites
                /\ nextWrite' = nextWrite + 1
                /\ entries' = [entries EXCEPT ![entryIndex] =
                                   Merge(entries[entryIndex], updates, now)]
                /\ writes' = writes \cup
                        {[call |-> nextWrite + 1, op |-> "setDoc",
                          id |-> entryId, data |-> updates, state |-> "sent"]}
                /\ UNCHANGED lastCall
    /\ UNCHANGED <<loading, error, unsubscribe, currentUser, now, remoteDocs,
                   listeners, nextListener, snapshots, nextDoc, deletedIds,
                   args, result, shellVars>>

\* the remote collection merges the fields of a setDoc into the document.
\* (A merge into a document the collection does not hold is left in flight.)
setDocApplied(w) ==
    /\ w \in writes
    /\ w.op = "setDoc"
    /\ w.state = "sent"
    /\ w.id \in RemoteIds
    /\ remoteDocs' = (remoteDocs \ {RemoteDoc(w.id)}) \cup
            {[id |-> w.id, data |-> RemoteMerge(RemoteDoc(w.id).data, w.data, now)]}
    /\ writes' = (writes \ {w}) \cup {[w EXCEPT !.state = "applied"]}
    /\ UNCHANGED <<entries, loading, error, unsubscribe, currentUser, now,
                   listeners, nextListener, snapshots, nextDoc, nextWrite,
                   lastCall, deletedIds, args, result, shellVars>>

\* setDoc resolved: nothing follows the await
updateEntryResolved(w) ==
    /\ w \in writes
    /\ w.op = "setDoc"
    /\ w.state = "applied"
    /\ writes' = writes \ {w}
    /\ lastCall' = Settled("updateEntry", "ok")
    /\ UNCHANGED <<entries, loading, error, unsubscribe, currentUser, now,
                   remoteDocs, listeners, nextListener, snapshots, nextDoc,
                   nextWrite, deletedIds, args, result, shellVars>>

\* setDoc rejected: the catch block only logs
updateEntryRejected(w) ==
    /\ w \in writes
    /\ w.op = "setDoc"
    /\ w.state = "sent"
    /\ writes' = writes \ {w}
    /\ lastCall' = Settled("updateEntry", "ok")
    /\ UNCHANGED <<entries, loading, error, unsubscribe, currentUser, now,
                   remoteDocs, listeners, nextListener, snapshots, nextDoc,
                   nextWrite, deletedIds, args, result, shellVars>>

(***************************************************************************)
(* deleteEntry.                                                            *)
(***************************************************************************)
\* the call up to `await deleteDoc(...)`, or to the throw that ends it
deleteEntry(entryId) ==
    /\ IF ~currentUser
       THEN /\ lastCall' = Settled("deleteEntry", ErrNotAuthenticated)
            /\ UNCHANGED <<entries, writes, nextWrite, deletedIds>>
       ELSE /\ nextWrite < MaxWrites
            /\ nextWrite' = nextWrite + 1
            /\ entries' = RemoveById(entries, entryId)
            /\ deletedIds' = IF entryId \in Ids(entries)
                             THEN deletedIds \cup {entryId}
                             ELSE deletedIds
            /\ writes' = writes \cup
                    {[call |-> nextWrite + 1, op |-> "deleteDoc",
                      id |-> entryId, state |-> "sent"]}
            /\ UNCHANGED lastCall
    /\ UNCHANGED <<loading, error, unsubscribe, currentUser, now, remoteDocs,
                   listeners, nextListener, snapshots, nextDoc, args, result, shellVars>>

\* the remote collection drops the document of a deleteDoc
deleteDocApplied(w) ==
    /\ w \in writes
    /\ w.op = "deleteDoc"
    /\ w.state = "sent"
    /\ remoteDocs' = {d \in remoteDocs : d.id # w.id}
    /\ writes' = (writes \ {w}) \cup {[w EXCEPT !.state = "applied"]}
    /\ UNCHANGED <<entries, loading, error, unsubscribe, currentUser, now,
                   listeners, nextListener, snapshots, nextDoc, nextWrite,
                   lastCall, deletedIds, args, result, shellVars>>

\* deleteDoc resolved: nothing follows the await
deleteEntryResolved(w) ==
    /\ w \in writes
    /\ w.op = "deleteDoc"
    /\ w.state = "applied"
    /\ writes' = writes \ {w}
    /\ lastCall' = Settled("deleteEntry", "ok")
    /\ UNCHANGED <<entries, loading, error, unsubscribe, currentUser, now,
                   remoteDocs, listeners, nextListener, snapshots, nextDoc,
                   nextWrite, deletedIds, args, result, shellVars>>

\* deleteDoc rejected: the catch block only logs
deleteEntryRejected(w) ==
    /\ w \in writes
    /\ w.op = "deleteDoc"
    /\ w.state = "sent"
    /\ writes' = writes \ {w}
    /\ lastCall' = Settled("deleteEntry", "ok")
    /\ UNCHANGED <<entries, loading, error, unsubscribe, currentUser, now,
                   remoteDocs, listeners, nextListener, snapshots, nextDoc,
                   nextWrite, deletedIds, args, result, shellVars>>

(***************************************************************************)
(* The store with its environment.                                         *)
(***************************************************************************)
Next ==
    \/ signIn
    \/ tick
    \/ \E data \in ExternalData : externalWrite(data)
    \/ init
    \/ \E l \in DOMAIN listeners : captureSnapshot(l)
    \/ onSnapshotNext
    \/ \E l \in DOMAIN listeners : onSnapshotError(l)
    \/ cleanup
    \/ \E input \in CreateInputs : createEntry(input)
    \/ \E w \in writes : addDocApplied(w)
    \/ \E w \in writes : createEntryResolved(w)
    \/ \E w \in writes : createEntryRejected(w)
    \/ \E id \in TargetIds, updates \in UpdateInputs : updateEntry(id, updates)
    \/ \E w \in writes : setDocApplied(w)
    \/ \E w \in writes : updateEntryResolved(w)
    \/ \E w \in writes : updateEntryRejected(w)
    \/ \E id \in TargetIds : deleteEntry(id)
    \/ \E w \in writes : deleteDocApplied(w)
    \/ \E w \in writes : deleteEntryResolved(w)
    \/ \E w \in writes : deleteEntryRejected(w)

Spec == Init /\ [][Next]_vars

(***************************************************************************)
(* The calculation module.  A quotient a / b is kept as the pair of its    *)
(* operands.                                                               *)
(***************************************************************************)
Quotient(a, b) == [num |-> a, den |-> b]

Returned(v) == [kind |-> "value", value |-> v]

ReturnedNull == [kind |-> "null"]

Thrown(message) == [kind |-> "throw", message |-> message]

\* mutant: equal readings are let through
validateMonotonicOdometer_strict(es) ==
    IF \E i \in 2..Len(es) : es[i].odometer < es[i - 1].odometer
    THEN ErrNonMonotonic
    ELSE "ok"

\* validateMonotonicOdometer(entries): the message thrown, or "ok"
validateMonotonicOdometer(es) ==
    IF \E i \in 2..Len(es) : es[i].odometer <= es[i - 1].odometer
    THEN ErrNonMonotonic
    ELSE "ok"

\* mutant: the baseline entry is not looked at
validateFuelAmounts_skipBaseline(es) ==
    IF \E i \in 2..Len(es) : es[i].fuelAmount <= 0
    THEN ErrFuelAmount
    ELSE "ok"

\* validateFuelAmounts(entries): the message thrown, or "ok"
validateFuelAmounts(es) ==
    IF \E i \in DOMAIN es : es[i].fuelAmount <= 0
    THEN ErrFuelAmount
    ELSE "ok"

RECURSIVE SumFuel(_)
\* reduce((sum, entry) => sum + entry.fuelAmount, 0)
SumFuel(es) ==
    IF es = <<>> THEN 0 ELSE Head(es).fuelAmount + SumFuel(Tail(es))

RECURSIVE SumCost(_)
\* reduce((sum, entry) => sum + entry.fuelAmount * entry.fuelPrice, 0)
SumCost(es) ==
    IF es = <<>> THEN 0
    ELSE Head(es).fuelAmount * Head(es).fuelPrice + SumCost(Tail(es))

\* mutant: the entries are validated before their number is looked at
calculateAverageEfficiency_validateFirst(es) ==
    IF validateMonotonicOdometer(es) # "ok"
    THEN Thrown(validateMonotonicOdometer(es))
    ELSE IF validateFuelAmounts(es) # "ok"
    THEN Thrown(validateFuelAmounts(es))
    ELSE IF Len(es) < 2 THEN ReturnedNull
    ELSE Returned(Quotient(es[Len(es)].odometer - es[1].odometer,
                           SumFuel(Tail(es))))

\* mutant: the fuel of the baseline entry is summed too
calculateAverageEfficiency_withBaseline(es) ==
    IF Len(es) < 2 THEN ReturnedNull
    ELSE IF validateMonotonicOdometer(es) # "ok"
    THEN Thrown(validateMonotonicOdometer(es))
    ELSE IF validateFuelAmounts(es) # "ok"
    THEN Thrown(validateFuelAmounts(es))
    ELSE Returned(Quotient(es[Len(es)].odometer - es[1].odometer, SumFuel(es)))

\* const totalDistance = ...; const totalFuel = ...; return totalDistance / totalFuel
calculateAverageEfficiency(es) ==
    IF Len(es) < 2 THEN ReturnedNull
    ELSE IF validateMonotonicOdometer(es) # "ok"
    THEN Thrown(validateMonotonicOdometer(es))
    ELSE IF validateFuelAmounts(es) # "ok"
    THEN Thrown(validateFuelAmounts(es))
    ELSE Returned(Quotient(es[Len(es)].odometer - es[1].odometer,
                           SumFuel(Tail(es))))

\* mutant: the fuel amounts are validated before the odometer readings
calculatePerEntryEfficiency_fuelFirst(es) ==
    IF Len(es) < 2 THEN Returned(<<>>)
    ELSE IF validateFuelAmounts(es) # "ok"
    THEN Thrown(validateFuelAmounts(es))
    ELSE IF validateMonotonicOdometer(es) # "ok"
    THEN Thrown(validateMonotonicOdometer(es))
    ELSE Returned([k \in 1..(Len(es) - 1) |->
            [entryId |-> es[k + 1].id,
             efficiency |-> Quotient(es[k + 1].odometer - es[k].odometer,
                                     es[k + 1].fuelAmount),
             distance |-> es[k + 1].odometer - es[k].odometer,
             fuelUsed |-> es[k + 1].fuelAmount]])

\* mutant: the distance is taken from the baseline entry
calculatePerEntryEfficiency_fromBaseline(es) ==
    IF Len(es) < 2 THEN Returned(<<>>)
    ELSE IF validateMonotonicOdometer(es) # "ok"
    THEN Thrown(validateMonotonicOdometer(es))
    ELSE IF validateFuelAmounts(es) # "ok"
    THEN Thrown(validateFuelAmounts(es))
    ELSE Returned([k \in 1..(Len(es) - 1) |->
            [entryId |-> es[k + 1].id,
             efficiency |-> Quotient(es[k + 1].odometer - es[1].odometer,
                                     es[k + 1].fuelAmount),
             distance |-> es[k + 1].odometer - es[1].odometer,
             fuelUsed |-> es[k + 1].fuelAmount]])

\* for (let i = 1; i < entries.length; i++) results.push({...})
calculatePerEntryEfficiency(es) ==
    IF Len(es) < 2 THEN Returned(<<>>)
    ELSE IF validateMonotonicOdometer(es) # "ok"
    THEN Thrown(validateMonotonicOdometer(es))
    ELSE IF validateFuelAmounts(es) # "ok"
    THEN Thrown(validateFuelAmounts(es))
    ELSE Returned([k \in 1..(Len(es) - 1) |->
            [entryId |-> es[k + 1].id,
             efficiency |-> Quotient(es[k + 1].odometer - es[k].odometer,
                                     es[k + 1].fuelAmount),
             distance |-> es[k + 1].odometer - es[k].odometer,
             fuelUsed |-> es[k + 1].fuelAmount]])

\* mutant: the cost of the baseline entry is summed too
calculateAverageCostPerDistance_withBaseline(es) ==
    IF Len(es) < 2 THEN ReturnedNull
    ELSE IF validateMonotonicOdometer(es) # "ok"
    THEN Thrown(validateMonotonicOdometer(es))
    ELSE IF validateFuelAmounts(es) # "ok"
    THEN Thrown(validateFuelAmounts(es))
    ELSE Returned(Quotient(SumCost(es), es[Len(es)].odometer - es[1].odometer))

\* const totalDistance = ...; const totalCost = ...; return totalCost / totalDistance
calculateAverageCostPerDistance(es) ==
    IF Len(es) < 2 THEN ReturnedNull
    ELSE IF validateMonotonicOdometer(es) # "ok"
    THEN Thrown(validateMonotonicOdometer(es))
    ELSE IF validateFuelAmounts(es) # "ok"
    THEN Thrown(validateFuelAmounts(es))
    ELSE Returned(Quotient(SumCost(Tail(es)),
                           es[Len(es)].odometer - es[1].odometer))

(***************************************************************************)
(* The store's derived metrics.                                            *)
(***************************************************************************)
RECURSIVE InsertByOdometer(_, _)
\* e put behind every entry of the sorted sequence whose odometer is not greater
InsertByOdometer(sorted, e) ==
    IF sorted = <<>> THEN <<e>>
    ELSE IF Head(sorted).odometer - e.odometer <= 0
    THEN <<Head(sorted)>> \o InsertByOdometer(Tail(sorted), e)
    ELSE <<e>> \o sorted

RECURSIVE SortByOdometer(_)
\* [...es].sort((a, b) => a.odometer - b.odometer): Array.prototype.sort is stable
SortByOdometer(es) ==
    IF es = <<>> THEN <<>>
    ELSE InsertByOdometer(SortByOdometer(SubSeq(es, 1, Len(es) - 1)), es[Len(es)])

\* mutant: the collection is handed on in its storage order
chronologicalEntries_unsorted(es) == es

\* mutant: the comparator is (a, b) => b.odometer - a.odometer
chronologicalEntries_descending(es) ==
    [k \in DOMAIN es |-> SortByOdometer(es)[Len(es) + 1 - k]]

\* the computed chronologicalEntries over a collection
chronologicalEntries(es) == SortByOdometer(es)

\* try { return calculate...(...) } catch { return fallback }
Caught(outcome, fallback) ==
    IF outcome.kind = "throw" THEN fallback ELSE outcome

averageEfficiency(es) ==
    Caught(calculateAverageEfficiency(chronologicalEntries(es)), ReturnedNull)

\* mutant: no try/catch, the calculator's failure reaches the reader
perEntryEfficiency_unguarded(es) ==
    calculatePerEntryEfficiency(chronologicalEntries(es))

perEntryEfficiency(es) ==
    Caught(calculatePerEntryEfficiency(chronologicalEntries(es)), Returned(<<>>))

averageCostPerDistance(es) ==
    Caught(calculateAverageCostPerDistance(chronologicalEntries(es)), ReturnedNull)

(***************************************************************************)
(* The prediction module.  A number is a quotient, `number | null` is      *)
(* Returned(number) or ReturnedNull, a tank capacity is an integer.        *)
(***************************************************************************)
ErrTankCapacity == "Tank capacity must be positive"

\* averageEfficiency * tankCapacity
Times(q, k) == Quotient(q.num * k, q.den)

\* range * averageCostPerDistance
Product(a, b) == Quotient(a.num * b.num, a.den * b.den)

\* mutant: the missing efficiency is looked at before the capacity
estimateRange_nullFirst(efficiency, tankCapacity) ==
    IF efficiency.kind = "null" THEN ReturnedNull
    ELSE IF tankCapacity <= 0 THEN Thrown(ErrTankCapacity)
    ELSE Returned(Times(efficiency.value, tankCapacity))

\* mutant: `!averageEfficiency` for `averageEfficiency === null`
estimateRange_falsy(efficiency, tankCapacity) ==
    IF tankCapacity <= 0 THEN Thrown(ErrTankCapacity)
    ELSE IF efficiency.kind = "null" THEN ReturnedNull
    ELSE IF efficiency.value.num = 0 THEN ReturnedNull
    ELSE Returned(Times(efficiency.value, tankCapacity))

estimateRange(efficiency, tankCapacity) ==
    IF tankCapacity <= 0 THEN Thrown(ErrTankCapacity)
    ELSE IF efficiency.kind = "null" THEN ReturnedNull
    ELSE Returned(Times(efficiency.value, tankCapacity))

\* mutant: the missing cost is looked at before the range is estimated
estimateFullTankCost_nullFirst(costPerDistance, efficiency, tankCapacity) ==
    IF costPerDistance.kind = "null" THEN ReturnedNull
    ELSE LET range == estimateRange(efficiency, tankCapacity)
         IN  IF range.kind = "throw" THEN range
             ELSE IF range.kind = "null" THEN ReturnedNull
             ELSE Returned(Product(range.value, costPerDistance.value))

\* a failure of estimateRange leaves estimateFullTankCost as it is
estimateFullTankCost(costPerDistance, efficiency, tankCapacity) ==
    LET range == estimateRange(efficiency, tankCapacity)
    IN  IF range.kind = "throw" THEN range
        ELSE IF range.kind = "null" \/ costPerDistance.kind = "null"
        THEN ReturnedNull
        ELSE Returned(Product(range.value, costPerDistance.value))

(***************************************************************************)
(* The store's predictions, over the store's own averages.                 *)
(***************************************************************************)
TANK_CAPACITY == 50

estimatedRange(es) ==
    Caught(estimateRange(averageEfficiency(es), TANK_CAPACITY), ReturnedNull)

estimatedFullTankCost(es) ==
    Caught(estimateFullTankCost(averageCostPerDistance(es), averageEfficiency(es),
                                TANK_CAPACITY),
           ReturnedNull)

(***************************************************************************)
(* The pure functions on their own: an argument is drawn, one function is  *)
(* applied to it.                                                          *)
(***************************************************************************)
Scalars == -1..MaxScalar

Instants == 0..MaxScalar

CreateArgs ==
    {[for |-> "create", input |-> Input(d, o, a, p), now |-> t] :
        d \in Scalars, o \in Scalars, a \in Scalars, p \in Scalars, t \in Instants}

PartialInputs == UNION {[D -> Scalars] : D \in SUBSET DataFields}

UpdateArgs ==
    {[for |-> "update", updates |-> u, now |-> t] :
        u \in PartialInputs, t \in Instants}

CalcValues == [odometer : 0..MaxOdometer, fuelAmount : 0..MaxFuel, fuelPrice : {1, 2}]

\* the entry at place i of a drawn sequence carries i as its id
CalcEntry(i, v) ==
    [id |-> i, odometer |-> v.odometer, fuelAmount |-> v.fuelAmount,
     fuelPrice |-> v.fuelPrice]

CalcArgs ==
    {[for |-> "calc", entries |-> [i \in DOMAIN vs |-> CalcEntry(i, vs[i])]] :
        vs \in UNION {[1..m -> CalcValues] : m \in 0..MaxLen}}

Numbers == {Quotient(n, d) : n \in Scalars, d \in 1..MaxCapacity}

Nullable == {ReturnedNull} \cup {Returned(q) : q \in Numbers}

PredictArgs ==
    {[for |-> "predict", averageCostPerDistance |-> c, averageEfficiency |-> e,
      tankCapacity |-> k] :
        c \in Nullable, e \in Nullable, k \in -1..MaxCapacity}

PureInit ==
    /\ StoreInit
    /\ ShellInit
    /\ args \in CreateArgs \cup UpdateArgs \cup CalcArgs \cup PredictArgs
    /\ result = NotCalled

\* mutant: the call takes the first element off its argument (shift() for slice(1))
Call_shift(fn, out) ==
    /\ \/ result = NotCalled
       \/ result.fn = fn /\ result.calls < MaxCalls
    /\ result' = [fn |-> fn, out |-> out,
                  calls |-> IF result = NotCalled THEN 1 ELSE result.calls + 1]
    /\ args' = IF args.for = "calc" /\ args.entries # <<>>
               THEN [args EXCEPT !.entries = Tail(@)]
               ELSE args
    /\ UNCHANGED <<storeVars, shellVars>>

\* one call of a pure function on the drawn argument, the first or a repeated
\* one; the functions read their argument and leave it as it is
Call(fn, out) ==
    /\ \/ result = NotCalled
       \/ result.fn = fn /\ result.calls < MaxCalls
    /\ result' = [fn |-> fn, out |-> out,
                  calls |-> IF result = NotCalled THEN 1 ELSE result.calls + 1]
    /\ UNCHANGED <<args, storeVars, shellVars>>

callValidateFuelEntry ==
    /\ args.for = "create"
    /\ Call("validateFuelEntry", validateFuelEntry(args.input, args.now))

callValidateUpdateData ==
    /\ args.for = "update"
    /\ Call("validateUpdateData", validateUpdateData(args.updates, args.now))

callCalculateAverageEfficiency ==
    /\ args.for = "calc"
    /\ Call("calculateAverageEfficiency", calculateAverageEfficiency(args.entries))

callCalculatePerEntryEfficiency ==
    /\ args.for = "calc"
    /\ Call("calculatePerEntryEfficiency", calculatePerEntryEfficiency(args.entries))

callCalculateAverageCostPerDistance ==
    /\ args.for = "calc"
    /\ Call("calculateAverageCostPerDistance",
            calculateAverageCostPerDistance(args.entries))

\* the store's metrics and predictions read over a collection holding the
\* drawn entries
readMetrics ==
    /\ args.for = "calc"
    /\ Call("metrics",
            [averageEfficiency |-> averageEfficiency(args.entries),
             perEntryEfficiency |-> perEntryEfficiency(args.entries),
             averageCostPerDistance |-> averageCostPerDistance(args.entries),
             estimatedRange |-> estimatedRange(args.entries),
             estimatedFullTankCost |-> estimatedFullTankCost(args.entries)])

callEstimateRange ==
    /\ args.for = "predict"
    /\ Call("estimateRange",
            estimateRange(args.averageEfficiency, args.tankCapacity))

callEstimateFullTankCost ==
    /\ args.for = "predict"
    /\ Call("estimateFullTankCost",
            estimateFullTankCost(args.averageCostPerDistance,
                                 args.averageEfficiency, args.tankCapacity))

PureNext ==
    \/ callValidateFuelEntry
    \/ callValidateUpdateData
    \/ callCalculateAverageEfficiency
    \/ callCalculatePerEntryEfficiency
    \/ callCalculateAverageCostPerDistance
    \/ readMetrics
    \/ callEstimateRange
    \/ callEstimateFullTankCost

PureSpec == PureInit /\ [][PureNext]_vars

(***************************************************************************)
(* The sync-status store and the connectivity tracker that feeds it.       *)
(***************************************************************************)
\* the messages setError is called with: null, the empty string, a message
ErrorMessages == {"null", "", "Sync failed"}

\* if (errorMessage.value): null and the empty string are falsy
Truthy(message) == message # "null" /\ message # ""

\* mutant: an error is reported ahead of the lost connection
status_errorFirst(store) ==
    IF Truthy(store.errorMessage) THEN "error"
    ELSE IF ~store.isOnline THEN "offline"
    ELSE IF store.isSyncing THEN "syncing"
    ELSE IF store.isPending THEN "pending"
    ELSE "synced"

\* the computed status
status(store) ==
    IF ~store.isOnline THEN "offline"
    ELSE IF Truthy(store.errorMessage) THEN "error"
    ELSE IF store.isSyncing THEN "syncing"
    ELSE IF store.isPending THEN "pending"
    ELSE "synced"

\* a setter called from outside: the call is kept in lastCall and args
Setter(op, value) ==
    /\ lastCall' = Settled(op, "ok")
    /\ args' = [for |-> op, value |-> value]
    /\ UNCHANGED <<entries, loading, error, unsubscribe, currentUser, now,
                   remoteDocs, listeners, nextListener, snapshots, writes,
                   nextDoc, nextWrite, deletedIds, result, connectivity,
                   authStore, navigation, vehicleStore, vehicleSubs,
                   vehicleRemote>>

setOnline(value) ==
    /\ syncStore' = [syncStore EXCEPT !.isOnline = value]
    /\ Setter("setOnline", value)

setPending(value) ==
    /\ syncStore' = [syncStore EXCEPT !.isPending = value]
    /\ Setter("setPending", value)

setSyncing(value) ==
    /\ syncStore' = [syncStore EXCEPT !.isSyncing = value]
    /\ Setter("setSyncing", value)

setError(message) ==
    /\ syncStore' = [syncStore EXCEPT !.errorMessage = message]
    /\ Setter("setError", message)

\* the callbacks initConnectivityTracker is given: none, or the one of App.vue,
\* (isOnline) => syncStore.setOnline(isOnline)
Callbacks == {"null", "syncStore.setOnline"}

initConnectivityTracker(onStatusChange) ==
    /\ connectivity' = [connectivity EXCEPT
                            !.onChangeCallback = onStatusChange,
                            !.isOnline = connectivity.onLine,
                            !.listening = TRUE]
    /\ UNCHANGED <<storeVars, args, result, syncStore, authStore, navigation,
                   vehicleStore, vehicleSubs, vehicleRemote>>

cleanupConnectivityTracker ==
    /\ connectivity' = [connectivity EXCEPT !.onChangeCallback = "null",
                                            !.listening = FALSE]
    /\ UNCHANGED <<storeVars, args, result, syncStore, authStore, navigation,
                   vehicleStore, vehicleSubs, vehicleRemote>>

\* mutant: the callback is given the status held before the event
Handle_stale(value) ==
    /\ connectivity' = [connectivity EXCEPT
            !.isOnline = value,
            !.onLine = value,
            !.events = @ + 1,
            !.delivered = IF connectivity.onChangeCallback # "null"
                          THEN Append(@, connectivity.isOnline)
                          ELSE @]
    /\ syncStore' = IF connectivity.onChangeCallback = "syncStore.setOnline"
                    THEN [syncStore EXCEPT !.isOnline = connectivity.isOnline]
                    ELSE syncStore

\* handleOnline (value TRUE) and handleOffline (value FALSE), run by the event
Handle(value) ==
    /\ connectivity' = [connectivity EXCEPT
            !.isOnline = value,
            !.onLine = value,
            !.events = @ + 1,
            !.delivered = IF connectivity.onChangeCallback # "null"
                          THEN Append(@, value)
                          ELSE @]
    /\ syncStore' = IF connectivity.onChangeCallback = "syncStore.setOnline"
                    THEN [syncStore EXCEPT !.isOnline = value]
                    ELSE syncStore

\* the browser goes online (value TRUE) or offline and dispatches the event to
\* the window listeners, if they are registered
WindowEvent(value) ==
    /\ connectivity.events < MaxEvents
    /\ IF connectivity.listening
       THEN Handle(value)
       ELSE /\ connectivity' = [connectivity EXCEPT !.onLine = value,
                                                    !.events = @ + 1]
            /\ UNCHANGED syncStore
    /\ UNCHANGED <<storeVars, args, result, authStore, navigation,
                   vehicleStore, vehicleSubs, vehicleRemote>>

online == WindowEvent(TRUE)

offline == WindowEvent(FALSE)

SyncNext ==
    \/ \E value \in BOOLEAN : setOnline(value)
    \/ \E value \in BOOLEAN : setPending(value)
    \/ \E value \in BOOLEAN : setSyncing(value)
    \/ \E message \in ErrorMessages : setError(message)
    \/ \E cb \in Callbacks : initConnectivityTracker(cb)
    \/ cleanupConnectivityTracker
    \/ online
    \/ offline

\* the page may load online or offline
SyncSpecInit ==
    /\ StoreInit
    /\ args = NoArgs
    /\ result = NotCalled
    /\ syncStore = SyncInit
    /\ \E b \in BOOLEAN : connectivity = ConnectivityInit(b)
    /\ authStore = [user |-> FALSE, loading |-> TRUE, listeners |-> 0]
    /\ navigation = [stage |-> "idle", to |-> "none", at |-> "none"]
    /\ vehicleStore = [vehicle |-> "null", fuelLogs |-> <<>>, loading |-> FALSE,
                       error |-> "null", unsubscribeVehicle |-> 0,
                       unsubscribeLogs |-> 0]
    /\ vehicleSubs = <<>>
    /\ vehicleRemote = [vehicle |-> "none", fuelLogs |-> <<>>]

SyncSpec == SyncSpecInit /\ [][SyncNext]_vars

(***************************************************************************)
(* The vehicle store: one listener on the vehicle document, one on the     *)
(* fuel logs.  A listener is referred to by its place in vehicleSubs; 0 is *)
(* the null handle.                                                        *)
(***************************************************************************)
signOut ==
    /\ currentUser
    /\ currentUser' = FALSE
    /\ UNCHANGED <<entries, loading, error, unsubscribe, now, remoteDocs,
                   listeners, nextListener, snapshots, writes, nextDoc,
                   nextWrite, lastCall, deletedIds, args, result, shellVars>>

VehicleData == {"car"}

FuelLogData == {"log"}

ActiveSubs(target) ==
    {l \in DOMAIN vehicleSubs :
        vehicleSubs[l].active /\ vehicleSubs[l].target = target}

\* unsubscribe(): the listener of that handle gets no more callbacks
Unsubscribed(subs, handle) ==
    IF handle = 0 THEN subs ELSE [subs EXCEPT ![handle].active = FALSE]

vehicleFrame ==
    UNCHANGED <<entries, loading, error, unsubscribe, now, remoteDocs,
                listeners, nextListener, snapshots, writes, nextDoc,
                nextWrite, lastCall, deletedIds, args, result, syncStore,
                connectivity, authStore, navigation>>

vehicleInit ==
    /\ IF ~currentUser
       THEN /\ vehicleStore' = [vehicleStore EXCEPT !.error = ErrNotAuthenticated]
            /\ UNCHANGED vehicleSubs
       ELSE /\ Len(vehicleSubs) < 2 * MaxInits
            /\ vehicleSubs' = vehicleSubs \o
                    <<[target |-> "vehicle", active |-> TRUE],
                      [target |-> "logs", active |-> TRUE]>>
            /\ vehicleStore' = [vehicleStore EXCEPT
                    !.loading = TRUE,
                    !.unsubscribeVehicle = Len(vehicleSubs) + 1,
                    !.unsubscribeLogs = Len(vehicleSubs) + 2]
    /\ UNCHANGED <<currentUser, vehicleRemote>>
    /\ vehicleFrame

\* the callback of the vehicle document's listener
vehicleSnapshot(l) ==
    /\ l \in ActiveSubs("vehicle")
    /\ vehicleStore' = [vehicleStore EXCEPT
            !.vehicle = IF vehicleRemote.vehicle # "none"
                        THEN vehicleRemote.vehicle
                        ELSE "null",
            !.loading = FALSE]
    /\ UNCHANGED <<currentUser, vehicleSubs, vehicleRemote>>
    /\ vehicleFrame

\* the error callback of the vehicle document's listener; Firestore ends the
\* listener with it
vehicleError(l) ==
    /\ l \in ActiveSubs("vehicle")
    /\ vehicleStore' = [vehicleStore EXCEPT !.error = "listen failed"]
    /\ vehicleSubs' = [vehicleSubs EXCEPT ![l].active = FALSE]
    /\ UNCHANGED <<currentUser, vehicleRemote>>
    /\ vehicleFrame

\* the callback of the fuel logs' listener
logsSnapshot(l) ==
    /\ l \in ActiveSubs("logs")
    /\ vehicleStore' = [vehicleStore EXCEPT !.fuelLogs = vehicleRemote.fuelLogs]
    /\ UNCHANGED <<currentUser, vehicleSubs, vehicleRemote>>
    /\ vehicleFrame

\* the error callback of the fuel logs' listener only logs
logsError(l) ==
    /\ l \in ActiveSubs("logs")
    /\ vehicleSubs' = [vehicleSubs EXCEPT ![l].active = FALSE]
    /\ UNCHANGED <<currentUser, vehicleStore, vehicleRemote>>
    /\ vehicleFrame

\* setVehicle(data): the merge reaches the document (ok) or the write fails
setVehicle(data, ok) ==
    /\ currentUser
    /\ IF ok
       THEN /\ vehicleRemote' = [vehicleRemote EXCEPT !.vehicle = data]
            /\ UNCHANGED vehicleStore
       ELSE /\ vehicleStore' = [vehicleStore EXCEPT !.error = "write failed"]
            /\ UNCHANGED vehicleRemote
    /\ UNCHANGED <<currentUser, vehicleSubs>>
    /\ vehicleFrame

\* addFuelLog(log): the log reaches the collection (ok) or the write fails
addFuelLog(log, ok) ==
    /\ currentUser
    /\ IF ok
       THEN /\ vehicleRemote.fuelLogs = <<>>
            /\ vehicleRemote' = [vehicleRemote EXCEPT !.fuelLogs = <<log>>]
            /\ UNCHANGED vehicleStore
       ELSE /\ vehicleStore' = [vehicleStore EXCEPT !.error = "write failed"]
            /\ UNCHANGED vehicleRemote
    /\ UNCHANGED <<currentUser, vehicleSubs>>
    /\ vehicleFrame

vehicleCleanup ==
    /\ vehicleSubs' = Unsubscribed(
                          Unsubscribed(vehicleSubs, vehicleStore.unsubscribeVehicle),
                          vehicleStore.unsubscribeLogs)
    /\ vehicleStore' = [vehicleStore EXCEPT !.vehicle = "null", !.fuelLogs = <<>>]
    /\ UNCHANGED <<currentUser, vehicleRemote>>
    /\ vehicleFrame

(***************************************************************************)
(* The auth store and the router's navigation guard.  One navigation is    *)
(* under way at a time: "guard" when beforeEach is about to run for it,    *)
(* "awaiting" while the guard awaits initAuth(), "resumed" once that       *)
(* promise has resolved; `at` is the route the last navigation ended on.   *)
(***************************************************************************)
Routes == {"home", "login", "fuel-entries"}

routerFrame ==
    UNCHANGED <<entries, loading, error, unsubscribe, now, remoteDocs,
                listeners, nextListener, snapshots, writes, nextDoc,
                nextWrite, lastCall, deletedIds, args, result, syncStore,
                connectivity, vehicleStore, vehicleSubs, vehicleRemote>>

\* router.push(to), a link, the first page load
navigate(to) ==
    /\ navigation.stage = "idle"
    /\ navigation' = [navigation EXCEPT !.stage = "guard", !.to = to]
    /\ UNCHANGED <<currentUser, authStore>>
    /\ routerFrame

\* mutant: an authenticated user is let through to the login route
Decided_loginOpen(nav, user) ==
    IF nav.to # "login" /\ ~user
    THEN [nav EXCEPT !.stage = "guard", !.to = "login"]
    ELSE [nav EXCEPT !.stage = "idle", !.at = nav.to]

\* the guard's three branches: next('/login') and next('/') start a navigation
\* to that route, next() ends this one on its target
Decided(nav, user) ==
    IF nav.to # "login" /\ ~user
    THEN [nav EXCEPT !.stage = "guard", !.to = "login"]
    ELSE IF nav.to = "login" /\ user
    THEN [nav EXCEPT !.stage = "guard", !.to = "home"]
    ELSE [nav EXCEPT !.stage = "idle", !.at = nav.to]

\* beforeEach up to `await authStore.initAuth()`, or to its end when the auth
\* store is initialised; initAuth registers a listener on the auth state
beforeEach ==
    /\ navigation.stage = "guard"
    /\ IF authStore.loading
       THEN /\ authStore' = [authStore EXCEPT !.listeners = @ + 1]
            /\ navigation' = [navigation EXCEPT !.stage = "awaiting"]
       ELSE /\ navigation' = Decided(navigation, authStore.user)
            /\ UNCHANGED authStore
    /\ UNCHANGED currentUser
    /\ routerFrame

\* the callback of onAuthStateChanged: it resolves the promise of initAuth
authStateChanged ==
    /\ authStore.listeners > 0
    /\ authStore' = [authStore EXCEPT !.user = currentUser, !.loading = FALSE]
    /\ navigation' = IF navigation.stage = "awaiting"
                     THEN [navigation EXCEPT !.stage = "resumed"]
                     ELSE navigation
    /\ UNCHANGED currentUser
    /\ routerFrame

\* beforeEach after the await
beforeEachResumed ==
    /\ navigation.stage = "resumed"
    /\ navigation' = Decided(navigation, authStore.user)
    /\ UNCHANGED <<currentUser, authStore>>
    /\ routerFrame

\* the application shell of App.vue: the auth state, the vehicle store and the
\* router
AppNext ==
    \/ signIn
    \/ signOut
    \/ vehicleInit
    \/ \E l \in DOMAIN vehicleSubs : vehicleSnapshot(l)
    \/ \E l \in DOMAIN vehicleSubs : vehicleError(l)
    \/ \E l \in DOMAIN vehicleSubs : logsSnapshot(l)
    \/ \E l \in DOMAIN vehicleSubs : logsError(l)
    \/ \E data \in VehicleData, ok \in BOOLEAN : setVehicle(data, ok)
    \/ \E log \in FuelLogData, ok \in BOOLEAN : addFuelLog(log, ok)
    \/ vehicleCleanup
    \/ \E to \in Routes : navigate(to)
    \/ beforeEach
    \/ authStateChanged
    \/ beforeEachResumed

AppSpec == Init /\ [][AppNext]_vars

(***************************************************************************)
(* Vocabulary of the properties.                                           *)
(***************************************************************************)
\* the remote write a step has just issued
IssuedWrite == CHOOSE w \in writes' : w.call = nextWrite'

Issues(op) == nextWrite' = nextWrite + 1 /\ IssuedWrite.op = op

\* the remote writes whose awaiting call a step has completed
CompletedWrites == {w \in writes : \A x \in writes' : x.call # w.call}

Completes(op) == \E w \in CompletedWrites : w.op = op

\* the four rules of the validator, of a whole record at instant t
ValidRecord(e, t) ==
    e.odometer > 0 /\ e.fuelAmount > 0 /\ e.fuelPrice > 0 /\ e.date <= t

\* the rules a record breaks at instant t, by their messages
BrokenRules(e, t) ==
    {m \in {ErrOdometer, ErrFuelAmount, ErrFuelPrice, ErrFutureDate} :
        \/ m = ErrOdometer /\ Has(e, "odometer") /\ e.odometer <= 0
        \/ m = ErrFuelAmount /\ Has(e, "fuelAmount") /\ e.fuelAmount <= 0
        \/ m = ErrFuelPrice /\ Has(e, "fuelPrice") /\ e.fuelPrice <= 0
        \/ m = ErrFutureDate /\ Has(e, "date") /\ e.date > t}

SameData(e, data) ==
    /\ e.date = data.date
    /\ e.odometer = data.odometer
    /\ e.fuelAmount = data.fuelAmount
    /\ e.fuelPrice = data.fuelPrice
    /\ e.createdAt = data.createdAt
    /\ e.updatedAt = data.updatedAt

(***************************************************************************)
(* C1.  Once deleteEntry(id) has removed an entry from the local           *)
(* collection, no later run of the snapshot callback makes an entry with   *)
(* that id appear in the local collection again.                           *)
(***************************************************************************)
C1_NoResurrection ==
    [][onSnapshotNext =>
          \A id \in deletedIds : id \notin Ids(entries) => id \notin Ids(entries')]_vars

(***************************************************************************)
(* C2.  In every state in which the remote write of a createEntry is still *)
(* in flight, the local collection already holds the new entry.            *)
(***************************************************************************)
C2_LocalBeforeRemote ==
    \A w \in writes :
        w.op = "addDoc" => \E i \in DOMAIN entries : SameData(entries[i], w.data)

C4_CreateCompletes ==
    [][/\ Issues("addDoc") =>
            /\ entries' = entries
            /\ IssuedWrite.data.createdAt = now
            /\ IssuedWrite.data.updatedAt = now
            /\ \E input \in CreateInputs :
                    /\ ValidRecord(input, now)
                    /\ \A f \in DataFields : IssuedWrite.data[f] = input[f]
       /\ \A w \in CompletedWrites :
            w.op = "addDoc" =>
                /\ lastCall' = Settled("createEntry", "ok")
                /\ Len(entries') = Len(entries) + 1
                /\ SameData(entries'[1], w.data)
                /\ \A i \in DOMAIN entries : entries'[i + 1] = entries[i]]_vars

C4_Witness ==
    /\ lastCall = Settled("createEntry", "ok")
    /\ Len(entries) = 2
    /\ entries[1].id = TempId(now)
    /\ entries[2].id = DocId(1)

(***************************************************************************)
(* C5.  No two entries of the local collection share an id.                *)
(***************************************************************************)
C5_NoDuplicateIds ==
    \A i, j \in DOMAIN entries : i # j => entries[i].id # entries[j].id

(***************************************************************************)
(* C6.  validateFuelEntry passes exactly when odometer, fuelAmount and     *)
(* fuelPrice are > 0 and the date is at or before now; otherwise it fails  *)
(* with the message of a rule the input breaks (InvalidOdometer for        *)
(* odometer <= 0, InvalidFuelAmount for fuelAmount <= 0, InvalidFuelPrice  *)
(* for fuelPrice <= 0, FutureDate for a date after now).                   *)
(***************************************************************************)
C6_CreateValidation ==
    result.fn = "validateFuelEntry" =>
        /\ result.out = "ok" <=> ValidRecord(args.input, args.now)
        /\ result.out # "ok" => result.out \in BrokenRules(args.input, args.now)
        /\ args.input.odometer <= 0 => result.out = ErrOdometer

C6_Witness ==
    /\ result.fn = "validateFuelEntry"
    /\ args.input.date = args.now + 1
    /\ result.out = ErrFutureDate

(***************************************************************************)
(* C7.  validateUpdateData fails if and only if a field present in the     *)
(* partial input breaks its rule (a present odometer, fuelAmount or        *)
(* fuelPrice <= 0, a present date after now), with the message of such a   *)
(* rule; absent fields are never checked.                                  *)
(***************************************************************************)
C7_UpdateValidation ==
    result.fn = "validateUpdateData" =>
        /\ result.out # "ok" <=> BrokenRules(args.updates, args.now) # {}
        /\ result.out # "ok" => result.out \in BrokenRules(args.updates, args.now)

C7_Witness ==
    /\ result.fn = "validateUpdateData"
    /\ DOMAIN args.updates = {"fuelAmount"}
    /\ args.updates.fuelAmount > 0
    /\ result.out = "ok"

(***************************************************************************)
(* C8.  As claimed: after every successful updateEntry the stored, merged  *)
(* record satisfies all four rules of the validator.                       *)
(***************************************************************************)
C8_MergedRecordValid ==
    [][Issues("setDoc") =>
          ValidRecord(entries'[FindIndex(entries, IssuedWrite.id)], now)]_vars

(***************************************************************************)
(* C8, amended.  updateEntry validates the fields present in its input     *)
(* and no others: after every successful updateEntry no present field      *)
(* breaks its rule, every data field absent from the input keeps its       *)
(* stored value, and so the merged record satisfies all four rules         *)
(* whenever the record before did.                                         *)
(***************************************************************************)
C8_PresentFieldsValid ==
    [][Issues("setDoc") =>
          LET w == IssuedWrite
              i == FindIndex(entries, w.id)
          IN  /\ BrokenRules(w.data, now) = {}
              /\ \A f \in DataFields \ DOMAIN w.data : entries'[i][f] = entries[i][f]
              /\ \A f \in DOMAIN w.data : entries'[i][f] = w.data[f]
              /\ ValidRecord(entries[i], now) => ValidRecord(entries'[i], now)]_vars

C8_Witness ==
    \E w \in writes, i \in DOMAIN entries :
        /\ w.op = "setDoc"
        /\ w.state = "sent"
        /\ w.data = [odometer |-> 2]
        /\ entries[i].id = w.id
        /\ entries[i].odometer = 2
        /\ ValidRecord(entries[i], now)

(***************************************************************************)
(* C9.  As claimed: on a sequence with pairwise distinct odometers and     *)
(* positive fuel amounts, given in any order, each calculator entry point  *)
(* returns what it returns on the odometer-ascending arrangement.          *)
(***************************************************************************)
CalcFns ==
    {"calculateAverageEfficiency", "calculatePerEntryEfficiency",
     "calculateAverageCostPerDistance"}

CalcOf(fn, es) ==
    CASE fn = "calculateAverageEfficiency" -> calculateAverageEfficiency(es)
      [] fn = "calculatePerEntryEfficiency" -> calculatePerEntryEfficiency(es)
      [] fn = "calculateAverageCostPerDistance" -> calculateAverageCostPerDistance(es)

DistinctOdometers(es) ==
    \A i, j \in DOMAIN es : i # j => es[i].odometer # es[j].odometer

PositiveFuel(es) == \A i \in DOMAIN es : es[i].fuelAmount > 0

\* the odometer-ascending arrangement of a sequence with distinct odometers:
\* at place k, the entry with k - 1 smaller odometers in the sequence
Ascending(es) ==
    [k \in DOMAIN es |->
        es[CHOOSE i \in DOMAIN es :
              Cardinality({j \in DOMAIN es : es[j].odometer < es[i].odometer}) = k - 1]]

C9_CalculatorSortsFirst ==
    /\ result.fn \in CalcFns
    /\ DistinctOdometers(args.entries)
    /\ PositiveFuel(args.entries)
    => result.out = CalcOf(result.fn, Ascending(args.entries))

(***************************************************************************)
(* C9, amended.  The sorted working copy is made by the store, not by the  *)
(* calculator: over a collection with pairwise distinct odometers and      *)
(* positive fuel amounts, held in any order, the store's averageEfficiency,*)
(* perEntryEfficiency and averageCostPerDistance are the calculator's      *)
(* results on the odometer-ascending arrangement; a calculator entry point *)
(* called on two or more such entries that are not in ascending order      *)
(* fails with NonMonotonicOdometer.                                        *)
(***************************************************************************)
C9_StoreSortsFirst ==
    /\ args.for = "calc"
    /\ DistinctOdometers(args.entries)
    /\ PositiveFuel(args.entries)
    => /\ result.fn = "metrics" =>
            LET sorted == Ascending(args.entries)
            IN  /\ result.out.averageEfficiency = calculateAverageEfficiency(sorted)
                /\ result.out.perEntryEfficiency = calculatePerEntryEfficiency(sorted)
                /\ result.out.averageCostPerDistance =
                       calculateAverageCostPerDistance(sorted)
       /\ result.fn \in CalcFns /\ args.entries # Ascending(args.entries) =>
            result.out = Thrown(ErrNonMonotonic)

C9_Witness ==
    /\ result.fn = "metrics"
    /\ Len(args.entries) = 3
    /\ args.entries[1].odometer = 2
    /\ args.entries[2].odometer = 0
    /\ args.entries[3].odometer = 1
    /\ PositiveFuel(args.entries)
    /\ result.out.averageEfficiency.kind = "value"
    /\ Len(result.out.perEntryEfficiency.value) = 2

(***************************************************************************)
(* C10.  On a sequence in which some entry's odometer is not greater than  *)
(* that of the entry before it (9000 following 10000), each of the three   *)
(* calculator operations fails with NonMonotonicOdometer.                  *)
(***************************************************************************)
C10_NonMonotonicFails ==
    /\ result.fn \in CalcFns
    /\ \E i \in 2..Len(args.entries) :
            args.entries[i].odometer <= args.entries[i - 1].odometer
    => result.out = Thrown(ErrNonMonotonic)

C10_Witness ==
    /\ result.fn = "calculatePerEntryEfficiency"
    /\ Len(args.entries) = 2
    /\ args.entries[1].odometer = 2
    /\ args.entries[2].odometer = 1
    /\ result.out = Thrown(ErrNonMonotonic)

(***************************************************************************)
(* Vocabulary of the calculator's formulas.                                *)
(***************************************************************************)
StrictlyIncreasing(es) ==
    \A i \in 2..Len(es) : es[i].odometer > es[i - 1].odometer

ValidSequence(es) ==
    Len(es) >= 2 /\ StrictlyIncreasing(es) /\ PositiveFuel(es)

RECURSIVE FuelFrom(_, _)
\* the fuel amounts of the entries at places i, i + 1, ... summed
FuelFrom(es, i) ==
    IF i > Len(es) THEN 0 ELSE es[i].fuelAmount + FuelFrom(es, i + 1)

RECURSIVE CostFrom(_, _)
\* fuelAmount * fuelPrice of the entries at places i, i + 1, ... summed
CostFrom(es, i) ==
    IF i > Len(es) THEN 0
    ELSE es[i].fuelAmount * es[i].fuelPrice + CostFrom(es, i + 1)

(***************************************************************************)
(* C11.  On a sequence of fewer than two entries, whatever the entries     *)
(* hold (a fuel amount or an odometer of zero included),                   *)
(* calculateAverageEfficiency and calculateAverageCostPerDistance return   *)
(* null and calculatePerEntryEfficiency returns the empty sequence; none   *)
(* of them fails.                                                          *)
(***************************************************************************)
C11_FewerThanTwo ==
    /\ result.fn \in CalcFns
    /\ Len(args.entries) < 2
    => result.out = IF result.fn = "calculatePerEntryEfficiency"
                    THEN Returned(<<>>)
                    ELSE ReturnedNull

C11_Witness ==
    /\ result.fn = "calculateAverageEfficiency"
    /\ Len(args.entries) = 1
    /\ args.entries[1].fuelAmount = 0
    /\ args.entries[1].odometer = 0
    /\ result.out = ReturnedNull

(***************************************************************************)
(* C12.  On a sequence of two or more entries two of which share an        *)
(* odometer reading, each of the three calculator operations fails with    *)
(* NonMonotonicOdometer, a fuel amount of zero in the sequence or not, and *)
(* returns no metric.                                                      *)
(***************************************************************************)
C12_SharedOdometerFails ==
    /\ result.fn \in CalcFns
    /\ Len(args.entries) >= 2
    /\ ~DistinctOdometers(args.entries)
    => result.out = Thrown(ErrNonMonotonic)

C12_Witness ==
    /\ result.fn = "calculatePerEntryEfficiency"
    /\ Len(args.entries) = 3
    /\ args.entries[1].odometer = 1
    /\ args.entries[2].odometer = 2
    /\ args.entries[3].odometer = 1
    /\ args.entries[2].fuelAmount = 0
    /\ result.out = Thrown(ErrNonMonotonic)

(***************************************************************************)
(* C13.  On a sequence of two or more entries with strictly increasing     *)
(* odometers in which some entry, the first one included, has a fuel       *)
(* amount that is not positive, each of the three calculator operations    *)
(* fails with 'Fuel amount must be positive'.                              *)
(***************************************************************************)
C13_InvalidFuelAmountFails ==
    /\ result.fn \in CalcFns
    /\ Len(args.entries) >= 2
    /\ StrictlyIncreasing(args.entries)
    /\ ~PositiveFuel(args.entries)
    => result.out = Thrown(ErrFuelAmount)

C13_Witness ==
    /\ result.fn = "calculateAverageCostPerDistance"
    /\ Len(args.entries) = 2
    /\ StrictlyIncreasing(args.entries)
    /\ args.entries[1].fuelAmount = 0
    /\ args.entries[2].fuelAmount = 1
    /\ result.out = Thrown(ErrFuelAmount)

(***************************************************************************)
(* C14.  On a valid sequence of n >= 2 entries calculateAverageEfficiency  *)
(* returns (odometer of the last entry - odometer of the first) divided by *)
(* the fuel amounts of entries 2..n summed; the first entry's fuel amount  *)
(* is no part of it.                                                       *)
(***************************************************************************)
C14_AverageEfficiencyFormula ==
    /\ result.fn = "calculateAverageEfficiency"
    /\ ValidSequence(args.entries)
    => LET es == args.entries
       IN  result.out = Returned(Quotient(es[Len(es)].odometer - es[1].odometer,
                                          FuelFrom(es, 2)))

C14_Witness ==
    /\ result.fn = "calculateAverageEfficiency"
    /\ ValidSequence(args.entries)
    /\ Len(args.entries) = 3
    /\ args.entries[1].fuelAmount = 2
    /\ result.out = Returned(Quotient(2, 2))

(***************************************************************************)
(* C15.  On a valid sequence of n >= 2 entries calculatePerEntryEfficiency *)
(* returns n - 1 records, the k-th for entry k + 1: its id, its odometer   *)
(* minus the odometer of the entry before it, its fuel amount, and that    *)
(* distance divided by that fuel amount.  The first entry has no record.   *)
(***************************************************************************)
C15_PerEntryRecords ==
    /\ result.fn = "calculatePerEntryEfficiency"
    /\ ValidSequence(args.entries)
    => LET es == args.entries
           rs == result.out.value
       IN  /\ result.out.kind = "value"
           /\ Len(rs) = Len(es) - 1
           /\ \A k \in 1..(Len(es) - 1) :
                /\ rs[k].entryId = es[k + 1].id
                /\ rs[k].distance = es[k + 1].odometer - es[k].odometer
                /\ rs[k].fuelUsed = es[k + 1].fuelAmount
                /\ rs[k].efficiency = Quotient(rs[k].distance, rs[k].fuelUsed)
           /\ \A k \in DOMAIN rs : rs[k].entryId # es[1].id

C15_Witness ==
    /\ result.fn = "calculatePerEntryEfficiency"
    /\ ValidSequence(args.entries)
    /\ Len(args.entries) = 3
    /\ Len(result.out.value) = 2
    /\ result.out.value[2].entryId = 3
    /\ result.out.value[2].distance = 1

(***************************************************************************)
(* C16.  On a valid sequence of n >= 2 entries                             *)
(* calculateAverageCostPerDistance returns fuelAmount * fuelPrice of       *)
(* entries 2..n summed, divided by (odometer of the last entry - odometer  *)
(* of the first); the first entry's fuel amount and price are no part of   *)
(* it.                                                                     *)
(***************************************************************************)
C16_AverageCostFormula ==
    /\ result.fn = "calculateAverageCostPerDistance"
    /\ ValidSequence(args.entries)
    => LET es == args.entries
       IN  result.out = Returned(Quotient(CostFrom(es, 2),
                                          es[Len(es)].odometer - es[1].odometer))

C16_Witness ==
    /\ result.fn = "calculateAverageCostPerDistance"
    /\ ValidSequence(args.entries)
    /\ Len(args.entries) = 3
    /\ args.entries[1].fuelPrice = 2
    /\ args.entries[2].fuelPrice = 2
    /\ args.entries[3].fuelPrice = 1
    /\ result.out.value.num = 2 * args.entries[2].fuelAmount + args.entries[3].fuelAmount

C18_CapacityCheckedFirst ==
    /\ result.fn = "estimateRange"
    /\ args.tankCapacity <= 0
    => result.out = Thrown(ErrTankCapacity)

C18_Witness ==
    /\ result.fn = "estimateRange"
    /\ args.tankCapacity = 0
    /\ args.averageEfficiency = ReturnedNull
    /\ result.out = Thrown(ErrTankCapacity)

(***************************************************************************)
(* C19.  With a positive tank capacity estimateRange returns null for the  *)
(* missing efficiency and efficiency * capacity otherwise; an efficiency   *)
(* of zero gives a range of zero, no failure and not null.                 *)
(***************************************************************************)
C19_RangeFormula ==
    /\ result.fn = "estimateRange"
    /\ args.tankCapacity > 0
    => IF args.averageEfficiency.kind = "null"
       THEN result.out = ReturnedNull
       ELSE /\ result.out.kind = "value"
            /\ result.out.value.num =
                   args.averageEfficiency.value.num * args.tankCapacity
            /\ result.out.value.den = args.averageEfficiency.value.den

C19_Witness ==
    /\ result.fn = "estimateRange"
    /\ args.tankCapacity = 2
    /\ args.averageEfficiency.kind = "value"
    /\ args.averageEfficiency.value.num = 0
    /\ result.out.kind = "value"
    /\ result.out.value.num = 0

(***************************************************************************)
(* C20.  estimateFullTankCost fails with 'Tank capacity must be positive'  *)
(* when the tank capacity is not positive, a missing cost or efficiency    *)
(* notwithstanding; with a positive capacity it returns null when the      *)
(* efficiency or the cost is missing and (efficiency * capacity) * cost    *)
(* otherwise.                                                              *)
(***************************************************************************)
C20_FullTankCost ==
    result.fn = "estimateFullTankCost" =>
        LET c == args.averageCostPerDistance
            e == args.averageEfficiency
            k == args.tankCapacity
        IN  IF k <= 0 THEN result.out = Thrown(ErrTankCapacity)
            ELSE IF e.kind = "null" \/ c.kind = "null"
            THEN result.out = ReturnedNull
            ELSE /\ result.out.kind = "value"
                 /\ result.out.value.num = (e.value.num * k) * c.value.num
                 /\ result.out.value.den = e.value.den * c.value.den

C20_Witness ==
    /\ result.fn = "estimateFullTankCost"
    /\ args.tankCapacity = 0
    /\ args.averageCostPerDistance = ReturnedNull
    /\ args.averageEfficiency.kind = "value"
    /\ result.out = Thrown(ErrTankCapacity)

(***************************************************************************)
(* C22.  A call of setOnline, setPending, setSyncing or setError sets the  *)
(* flag of that setter to the value given and leaves the other three flags *)
(* as they were, and the status read after any step is 'offline' when not  *)
(* online, else 'error' when an error message is set, else 'syncing' when  *)
(* syncing, else 'pending' when pending, else 'synced'.  (A message is set *)
(* when it is neither null nor the empty string.)                          *)
(***************************************************************************)
FlagOf(op) ==
    CASE op = "setOnline" -> "isOnline"
      [] op = "setPending" -> "isPending"
      [] op = "setSyncing" -> "isSyncing"
      [] op = "setError" -> "errorMessage"

SyncSetters == {"setOnline", "setPending", "setSyncing", "setError"}

StatusByPriority(store) ==
    CASE ~store.isOnline -> "offline"
      [] store.isOnline /\ store.errorMessage \notin {"null", ""} -> "error"
      [] store.isOnline /\ store.errorMessage \in {"null", ""} /\ store.isSyncing
            -> "syncing"
      [] store.isOnline /\ store.errorMessage \in {"null", ""} /\ ~store.isSyncing
            /\ store.isPending -> "pending"
      [] OTHER -> "synced"

C22_StatusPriority ==
    [][/\ status(syncStore') = StatusByPriority(syncStore')
       /\ lastCall'.op \in SyncSetters /\ <<lastCall, args>>' # <<lastCall, args>>
            => \A f \in DOMAIN syncStore :
                 syncStore'[f] = IF f = FlagOf(lastCall'.op)
                                 THEN args'.value
                                 ELSE syncStore[f]]_vars

C22_Witness ==
    /\ lastCall.op = "setError"
    /\ args.value = "null"
    /\ syncStore.isOnline
    /\ syncStore.isPending
    /\ ~syncStore.isSyncing
    /\ status(syncStore) = "pending"

(***************************************************************************)
(* C23.  While the tracker's window listeners are registered, an 'online'  *)
(* event sets isOnline to true and an 'offline' event sets it to false,    *)
(* and the callback given to initConnectivityTracker, if one was given, is *)
(* invoked once with that value (the callback of App.vue sets the sync     *)
(* store's flag to it); an event after cleanupConnectivityTracker invokes  *)
(* no callback and leaves the sync store alone.                            *)
(***************************************************************************)
C23_EventsTracked ==
    [][connectivity'.events = connectivity.events + 1
        => LET kind == connectivity'.onLine
               cb == connectivity.onChangeCallback
           IN  /\ connectivity.listening =>
                    /\ connectivity'.isOnline = kind
                    /\ cb # "null" =>
                          connectivity'.delivered =
                              Append(connectivity.delivered, kind)
                    /\ cb = "syncStore.setOnline" => syncStore'.isOnline = kind
               /\ ~connectivity.listening \/ cb = "null" =>
                    /\ connectivity'.delivered = connectivity.delivered
                    /\ syncStore' = syncStore]_vars

C23_Witness ==
    /\ connectivity.events = 3
    /\ connectivity.delivered = <<FALSE, TRUE>>
    /\ syncStore.isOnline
    /\ ~connectivity.listening
    /\ connectivity.onChangeCallback = "null"
    /\ ~connectivity.onLine
    /\ connectivity.isOnline

(***************************************************************************)
(* C28.  Of the listeners init has registered on one subscription (the     *)
(* vehicle document, the fuel logs) at most one is active at any time, and *)
(* once cleanup has run none is, init having run once or several times     *)
(* before it: a step that empties the store leaves no listener active.     *)
(***************************************************************************)
C28_ListenersReleased ==
    [][/\ \A target \in {"vehicle", "logs"} : Cardinality(ActiveSubs(target)) <= 1
       /\ vehicleCleanup => \A l \in DOMAIN vehicleSubs' : ~vehicleSubs'[l].active]_vars

(***************************************************************************)
(* C29.  When the listener of the vehicle document delivers a snapshot or  *)
(* reports an error, loading is false after the callback.                  *)
(***************************************************************************)
C29_LoadingCleared ==
    [][(\E l \in DOMAIN vehicleSubs : vehicleSnapshot(l) \/ vehicleError(l))
        => ~vehicleStore'.loading]_vars

(***************************************************************************)
(* C30.  A navigation ends on a route other than 'login' only while the    *)
(* auth store holds a user, and on 'login' only while it holds none; the   *)
(* guard ends or redirects a navigation only when the auth store's loading *)
(* is false.                                                               *)
(***************************************************************************)
GuardDecides ==
    /\ navigation.stage \in {"guard", "resumed"}
    /\ navigation' # navigation
    /\ navigation'.stage # "awaiting"

C30_GuardedNavigation ==
    [][/\ navigation'.stage = "idle" /\ navigation.stage # "idle"
            => /\ navigation'.at = navigation.to
               /\ navigation'.at # "login" => authStore.user
               /\ navigation'.at = "login" => ~authStore.user
       /\ GuardDecides
            => /\ ~authStore.loading
               /\ navigation.to # "login" /\ ~authStore.user
                    => navigation'.stage = "guard" /\ navigation'.to = "login"
               /\ navigation.to = "login" /\ authStore.user
                    => navigation'.stage = "guard" /\ navigation'.to = "home"]_vars

C30_Witness ==
    /\ navigation.stage = "guard"
    /\ navigation.to = "home"
    /\ navigation.at = "fuel-entries"
    /\ authStore.user
    /\ ~authStore.loading

(***************************************************************************)
(* Vocabulary of the store's metrics.                                      *)
(***************************************************************************)
\* the arrangements of a collection by ascending odometer
Arrangements(es) ==
    {[k \in DOMAIN es |-> es[p[k]]] : p \in
        {q \in Permutations(DOMAIN es) :
            \A k \in 2..Len(es) : es[q[k - 1]].odometer <= es[q[k]].odometer}}

\* what a reader is shown of a calculator's outcome
Shown(outcome, unavailable) ==
    IF outcome.kind = "throw" THEN unavailable ELSE outcome

\* the same entry values under other ids, held in the opposite order
Reconciled(es) ==
    [k \in DOMAIN es |-> [es[Len(es) + 1 - k] EXCEPT !.id = <<"other", k>>]]

(***************************************************************************)
(* C21.  In every reachable state of the fuel-entry store the exposed      *)
(* averageEfficiency, perEntryEfficiency and averageCostPerDistance are    *)
(* the calculator's results on the current collection arranged by          *)
(* ascending odometer (a failure of the calculator shown as unavailable),  *)
(* and the two averages are those of a collection holding the same entry   *)
(* values in another order under other ids.                                *)
(***************************************************************************)
C21_MetricsFromCurrent ==
    /\ \A s \in Arrangements(entries) :
        /\ averageEfficiency(entries) =
                Shown(calculateAverageEfficiency(s), ReturnedNull)
        /\ perEntryEfficiency(entries) =
                Shown(calculatePerEntryEfficiency(s), Returned(<<>>))
        /\ averageCostPerDistance(entries) =
                Shown(calculateAverageCostPerDistance(s), ReturnedNull)
    /\ averageEfficiency(Reconciled(entries)) = averageEfficiency(entries)
    /\ averageCostPerDistance(Reconciled(entries)) = averageCostPerDistance(entries)

C21_Witness ==
    /\ Len(entries) = 2
    /\ entries[1].odometer = 2
    /\ entries[2].odometer = 1
    /\ entries[1].id[1] = "temp"
    /\ entries[2].id[1] = "doc"
    /\ averageEfficiency(entries) = Returned(Quotient(1, 1))

(***************************************************************************)
(* C24.  A createEntry or updateEntry call that ends in a failure (a rule  *)
(* of the validator broken, nobody signed in, no entry of that id) leaves  *)
(* the local collection as it was and issues no remote write.              *)
(***************************************************************************)
C24_FailedCallFrame ==
    [][/\ lastCall' # lastCall
       /\ lastCall'.op \in {"createEntry", "updateEntry"}
       /\ lastCall'.outcome # "ok"
       => /\ entries' = entries
          /\ writes' = writes
          /\ nextWrite' = nextWrite
          /\ remoteDocs' = remoteDocs]_vars

C24_Witness ==
    /\ lastCall = Settled("updateEntry", ErrNotFound)
    /\ Len(entries) = 1
    /\ writes = {}
    /\ deletedIds # {}

(***************************************************************************)
(* C25.  A successful updateEntry replaces, in the first entry of that id, *)
(* the fields present in the updates and sets its updatedAt to the current *)
(* instant; that entry's id, createdAt and absent fields, its place, the   *)
(* length of the collection and every other entry stay as they were, also  *)
(* when the remote write then resolves or is rejected.                     *)
(***************************************************************************)
C25_UpdateFrame ==
    [][/\ Issues("setDoc") =>
            LET w == IssuedWrite
                i == FindIndex(entries, w.id)
            IN  /\ i # 0
                /\ DOMAIN entries' = DOMAIN entries
                /\ \A j \in DOMAIN entries : j # i => entries'[j] = entries[j]
                /\ entries'[i].id = entries[i].id
                /\ entries'[i].createdAt = entries[i].createdAt
                /\ entries'[i].updatedAt = now
                /\ \A f \in DataFields :
                      entries'[i][f] = IF f \in DOMAIN w.data
                                       THEN w.data[f]
                                       ELSE entries[i][f]
       /\ Completes("setDoc") => entries' = entries]_vars

C25_Witness ==
    \E w \in writes, i \in DOMAIN entries :
        /\ w.op = "setDoc"
        /\ Len(entries) = 2
        /\ i = 2
        /\ entries[i].id = w.id
        /\ entries[i].createdAt = 1
        /\ entries[i].updatedAt = 2
        /\ entries[i].odometer = 2
        /\ entries[i].fuelAmount = 1

(***************************************************************************)
(* C26.  Over a collection of two or more entries that, arranged by        *)
(* odometer, has two equal readings or a fuel amount that is not positive, *)
(* the store shows every metric as unavailable and raises nothing:         *)
(* averageEfficiency and averageCostPerDistance are null,                  *)
(* perEntryEfficiency is empty, estimatedRange and estimatedFullTankCost   *)
(* are null.                                                               *)
(***************************************************************************)
C26_MetricsUnavailable ==
    /\ result.fn = "metrics"
    /\ Len(args.entries) >= 2
    /\ ~DistinctOdometers(args.entries) \/ ~PositiveFuel(args.entries)
    => /\ result.out.averageEfficiency = ReturnedNull
       /\ result.out.averageCostPerDistance = ReturnedNull
       /\ result.out.perEntryEfficiency = Returned(<<>>)
       /\ result.out.estimatedRange = ReturnedNull
       /\ result.out.estimatedFullTankCost = ReturnedNull

C26_Witness ==
    /\ result.fn = "metrics"
    /\ Len(args.entries) = 3
    /\ args.entries[1].odometer = 2
    /\ args.entries[2].odometer = 0
    /\ args.entries[3].odometer = 1
    /\ args.entries[3].fuelAmount = 0
    /\ args.entries[1].fuelAmount = 1
    /\ args.entries[2].fuelAmount = 1
    /\ result.out.estimatedFullTankCost = ReturnedNull
    /\ result.out.perEntryEfficiency = Returned(<<>>)

(***************************************************************************)
(* C27.  An entry createEntry has put in the local collection under a      *)
(* temporary id, its remote write having failed, is still in the           *)
(* collection after a snapshot callback has run.                           *)
(***************************************************************************)
C27_CreatedEntryStays ==
    [][onSnapshotNext =>
        \A i \in DOMAIN entries :
            entries[i].id[1] = "temp" => entries[i].id \in Ids(entries')]_vars

====
